---- MODULE Spec2Model ----
\* pc.LightComponent (src/framework/components/light/component.js): the property
\* registry built by _defineProperty, the per-instance store this.data, the
\* on-change handlers that push values to the rendering handle this.light, the
\* mask composition of affectDynamic / affectLightmapped / bake, the deprecated
\* alias `enable`, refreshProperties and the enable / disable hooks.
EXTENDS Integers, Sequences, FiniteSets, TLC

\* ---------------------------------------------------------------- bounds
\* Number of top-level operations performed on one component instance.
MaxOps == 3

\* ---------------------------------------------------------------- values
\* JavaScript null as the value of a handle-typed or texture-typed property.
Null == 0
\* The number NaN, the one value v with v !== v.  Numeric properties hold
\* non-negative integers, so -1 is free to stand for it.
NaN == -1
\* pc.MASK_DYNAMIC, pc.MASK_BAKED, pc.MASK_LIGHTMAP: three distinct mask bits.
MASK_DYNAMIC == 1
MASK_BAKED == 2
MASK_LIGHTMAP == 4
\* A mask bit that none of the three flags owns.
MASK_OTHER == 2 * MASK_LIGHTMAP

\* ---------------------------------------------------------------- registry
\* _props: the names pushed by _defineProperty, in registration order.
props ==
    << "enabled", "light", "type", "color", "intensity", "castShadows",
       "shadowDistance", "shadowResolution", "shadowBias", "normalOffsetBias",
       "range", "innerConeAngle", "outerConeAngle", "falloffMode", "shadowType",
       "vsmBlurSize", "vsmBlurMode", "vsmBias", "cookie", "cookieIntensity",
       "cookieFalloff", "cookieChannel", "shadowUpdateMode", "mask",
       "affectDynamic", "affectLightmapped", "bake" >>

\* A registry whose affectDynamic and affectLightmapped defaults are exchanged.
propsDefault_Swapped ==
    << TRUE, 0, "directional", 1, 1, FALSE,
       40, 1024, 5, 0,
       10, 40, 45, 0, 0,
       11, 1, 25, 0, 1,
       FALSE, "rgb", 2, 1,
       FALSE, TRUE, FALSE >>

\* _propsDefault: the defaults pushed by _defineProperty, parallel to props.
\* color is an object reference (1 is the pc.Color(1, 1, 1) made at registration),
\* shadowBias is counted in 1/100 (0.05 is 5), vsmBias in 1/10000 (0.0025 is 25),
\* the pc.* enumerators LIGHTFALLOFF_LINEAR, SHADOW_DEPTH, BLUR_GAUSSIAN and
\* SHADOWUPDATE_REALTIME are 0, 0, 1 and 2.
propsDefault ==
    << TRUE, Null, "directional", 1, 1, FALSE,
       40, 1024, 5, 0,
       10, 40, 45, 0, 0,
       11, 1, 25, Null, 1,
       FALSE, "rgb", 2, 1,
       TRUE, FALSE, FALSE >>

PropNames == { props[i] : i \in 1..Len(props) }

IndexOf(name) == CHOOSE i \in 1..Len(props) : props[i] = name

DefaultOf(name) == propsDefault[IndexOf(name)]

\* The properties registered with a setFunc: every one but `light`.
HasSetFunc(name) == name # "light"

\* The properties whose setFunc is a single call this.light.setX(newValue)
\* (shadowBias scales its argument, shadowUpdateMode assigns a field).
Forwarded ==
    { "color", "intensity", "castShadows", "shadowDistance", "shadowResolution",
      "shadowBias", "normalOffsetBias", "range", "innerConeAngle",
      "outerConeAngle", "falloffMode", "shadowType", "vsmBlurSize", "vsmBlurMode",
      "vsmBias", "cookie", "cookieIntensity", "cookieFalloff", "cookieChannel",
      "mask" }

\* The handle setter each forwarding setFunc calls.
SetterOf(name) ==
    CASE name = "color" -> "setColor"
      [] name = "intensity" -> "setIntensity"
      [] name = "castShadows" -> "setCastShadows"
      [] name = "shadowDistance" -> "setShadowDistance"
      [] name = "shadowResolution" -> "setShadowResolution"
      [] name = "shadowBias" -> "setShadowBias"
      [] name = "normalOffsetBias" -> "setNormalOffsetBias"
      [] name = "range" -> "setAttenuationEnd"
      [] name = "innerConeAngle" -> "setInnerConeAngle"
      [] name = "outerConeAngle" -> "setOuterConeAngle"
      [] name = "falloffMode" -> "setFalloffMode"
      [] name = "shadowType" -> "setShadowType"
      [] name = "vsmBlurSize" -> "setVsmBlurSize"
      [] name = "vsmBlurMode" -> "setVsmBlurMode"
      [] name = "vsmBias" -> "setVsmBias"
      [] name = "cookie" -> "setCookie"
      [] name = "cookieIntensity" -> "setCookieIntensity"
      [] name = "cookieFalloff" -> "setCookieFalloff"
      [] name = "cookieChannel" -> "setCookieChannel"
      [] name = "mask" -> "setMask"

\* The numeric properties a caller may assign NaN to.
NumericProps == { "intensity", "range" }

\* The values callers assign to each property.
PropVals(name) ==
    CASE name \in { "enabled", "castShadows", "cookieFalloff", "affectDynamic",
                    "affectLightmapped", "bake" } -> BOOLEAN
      [] name = "type" -> { "directional", "point", "spot" }
      [] name = "color" -> { 1, 2 }
      [] name = "intensity" -> { 1, 2, NaN }
      [] name = "shadowDistance" -> { 40, 50 }
      [] name = "shadowResolution" -> { 1024, 512 }
      [] name = "shadowBias" -> { 5, 10 }
      [] name = "normalOffsetBias" -> { 0, 1 }
      [] name = "range" -> { 10, 20, NaN }
      [] name = "innerConeAngle" -> { 40, 30 }
      [] name = "outerConeAngle" -> { 45, 60 }
      [] name = "falloffMode" -> { 0, 1 }
      [] name = "shadowType" -> { 0, 1 }
      [] name = "vsmBlurSize" -> { 11, 5 }
      [] name = "vsmBlurMode" -> { 1, 0 }
      [] name = "vsmBias" -> { 25, 30 }
      [] name = "cookie" -> { Null, 1 }
      [] name = "cookieIntensity" -> { 1, 2 }
      [] name = "cookieChannel" -> { "rgb", "r" }
      [] name = "shadowUpdateMode" -> { 2, 0 }
      [] name = "mask" -> { 0, MASK_DYNAMIC, MASK_DYNAMIC + MASK_OTHER,
                            MASK_BAKED + MASK_LIGHTMAP + MASK_OTHER }

\* ---------------------------------------------------------------- state
VARIABLES
    data,     \* this.data: property name -> stored value; data.light is the
              \* identity of the rendering handle (Null when there is none)
    heap,     \* the live rendering handle: handle identity -> its fields
    entity,   \* this.entity.enabled
    op,       \* the operation performed last: [kind, prop, val]
    fired,    \* the setFunc invocations of the last operation, in order:
              \* <<name, newValue, oldValue>>
    calls,    \* the setter calls the current handle received during the last
              \* operation, in order: <<setter, argument>>
    warns,    \* console.warn emissions of the last operation
    threw,    \* whether the last operation ended by a TypeError
    ret,      \* the value the last operation returned (the `enable` getter)
    invoked,  \* the changeType and refreshProperties invocations of the last
              \* operation, in order
    nOps      \* operations performed so far

vars == << data, heap, entity, op, fired, calls, warns, threw, ret, invoked, nOps >>

\* The execution context an operation runs in and transforms: the instance's
\* store, its handle, the entity flag and what the operation has done so far.
Ctx ==
    [ data |-> data, heap |-> heap, entity |-> entity,
      fired |-> << >>, calls |-> << >>, warns |-> 0, threw |-> FALSE,
      invoked |-> << >> ]

\* ---------------------------------------------------------------- handle
\* The fields of the rendering handle: one per forwarding setter, the
\* shadowUpdateMode field, the enabled flag and the light type it was built for.
HandleFields == Forwarded \cup { "shadowUpdateMode", "enabled", "type" }

\* A setShadowBias argument passed through unscaled.
ShadowBiasArg_Unscaled(newValue) == newValue

\* -0.01 * newValue, the argument of setShadowBias (counted in 1/10000 when
\* the property is counted in 1/100).
ShadowBiasArg(newValue) == 0 - newValue

\* A handle as the factory builds it: engine defaults, disabled.
NewHandle(type) ==
    [ f \in HandleFields |->
        CASE f = "enabled" -> FALSE
          [] f = "type" -> type
          [] f = "shadowBias" -> ShadowBiasArg(DefaultOf(f))
          [] OTHER -> DefaultOf(f) ]

\* The identity of a handle that is not the current one.
FreshId(cur) == IF cur = 1 THEN 2 ELSE 1

\* A TypeError: the operation stops where it is.
Throw(s) == [s EXCEPT !.threw = TRUE]

\* A setMask call that also writes the mask back into the component's store.
Call_StoresBack(s, setter, field, arg) ==
    IF s.data.light = Null
    THEN Throw(s)
    ELSE IF setter = "setMask"
         THEN [s EXCEPT !.heap[s.data.light][field] = arg,
                        !.data.mask = arg,
                        !.calls = Append(@, << setter, arg >>)]
         ELSE [s EXCEPT !.heap[s.data.light][field] = arg,
                        !.calls = Append(@, << setter, arg >>)]

\* this.light.setX(arg): a TypeError when this.light is null, else the handle
\* takes the value.
Call(s, setter, field, arg) ==
    IF s.data.light = Null
    THEN Throw(s)
    ELSE [s EXCEPT !.heap[s.data.light][field] = arg,
                   !.calls = Append(@, << setter, arg >>)]

\* this.light.field = arg.
Assign(s, field, arg) ==
    IF s.data.light = Null
    THEN Throw(s)
    ELSE [s EXCEPT !.heap[s.data.light][field] = arg]

\* ---------------------------------------------------------------- mask bits
HasBit(m, b) == (m \div b) % 2 = 1

\* m | b and m & ~b for a single bit b.
BitOr(m, b) == IF HasBit(m, b) THEN m ELSE m + b

BitAndNot(m, b) == IF HasBit(m, b) THEN m - b ELSE m

\* An affectDynamic setFunc that also drops the BAKED bit when it clears DYNAMIC.
affectDynamicMask_ClearsBaked(mask, newValue) ==
    IF newValue
    THEN BitOr(mask, MASK_DYNAMIC)
    ELSE BitAndNot(BitAndNot(mask, MASK_DYNAMIC), MASK_BAKED)

\* The mask the affectDynamic setFunc leaves in this.light.mask.
affectDynamicMask(mask, newValue) ==
    IF newValue
    THEN BitOr(mask, MASK_DYNAMIC)
    ELSE BitAndNot(mask, MASK_DYNAMIC)

\* An affectLightmapped setFunc whose else branch forgets to restore LIGHTMAP
\* under bake.
affectLightmappedMask_NoRestore(mask, newValue, bake) ==
    IF newValue
    THEN LET m == BitOr(mask, MASK_BAKED)
         IN  IF bake THEN BitAndNot(m, MASK_LIGHTMAP) ELSE m
    ELSE BitAndNot(mask, MASK_BAKED)

\* An affectLightmapped setFunc that adjusts LIGHTMAP whatever bake is.
affectLightmappedMask_Always(mask, newValue, bake) ==
    IF newValue
    THEN BitAndNot(BitOr(mask, MASK_BAKED), MASK_LIGHTMAP)
    ELSE BitOr(BitAndNot(mask, MASK_BAKED), MASK_LIGHTMAP)

\* A bake setFunc that never touches BAKED.
bakeMask_NoCoupling(mask, newValue, affectLightmapped) ==
    IF newValue
    THEN BitOr(mask, MASK_LIGHTMAP)
    ELSE BitAndNot(mask, MASK_LIGHTMAP)

\* An affectLightmapped setFunc that sets BAKED without clearing LIGHTMAP
\* under bake.
affectLightmappedMask_NoClear(mask, newValue, bake) ==
    IF newValue
    THEN BitOr(mask, MASK_BAKED)
    ELSE LET m == BitAndNot(mask, MASK_BAKED)
         IN  IF bake THEN BitOr(m, MASK_LIGHTMAP) ELSE m

\* The mask the affectLightmapped setFunc leaves in this.light.mask.
affectLightmappedMask(mask, newValue, bake) ==
    IF newValue
    THEN LET m == BitOr(mask, MASK_BAKED)
         IN  IF bake THEN BitAndNot(m, MASK_LIGHTMAP) ELSE m
    ELSE LET m == BitAndNot(mask, MASK_BAKED)
         IN  IF bake THEN BitOr(m, MASK_LIGHTMAP) ELSE m

\* The mask the bake setFunc leaves in this.light.mask.
bakeMask(mask, newValue, affectLightmapped) ==
    IF newValue
    THEN LET m == BitOr(mask, MASK_LIGHTMAP)
         IN  IF affectLightmapped THEN BitAndNot(m, MASK_BAKED) ELSE m
    ELSE LET m == BitAndNot(mask, MASK_LIGHTMAP)
         IN  IF affectLightmapped THEN BitOr(m, MASK_BAKED) ELSE m

\* ---------------------------------------------------------------- lifecycle
\* onEnable: the base class hook, then this.light.setEnabled(true).
onEnable(s) == Call(s, "setEnabled", "enabled", TRUE)

\* An onDisable pasted from onEnable with its argument left as it was.
onDisable_Enables(s) == Call(s, "setEnabled", "enabled", TRUE)

\* onDisable: the base class hook, then this.light.setEnabled(false).
onDisable(s) == Call(s, "setEnabled", "enabled", FALSE)

\* pc.Component.onSetEnabled: a changed flag on an enabled entity runs the hook.
onSetEnabled(s, name, oldValue, newValue) ==
    IF oldValue # newValue /\ s.entity
    THEN IF newValue THEN onEnable(s) ELSE onDisable(s)
    ELSE s

\* system.changeType: the factory builds a handle for newType and installs it
\* as the instance's only handle.
changeType(s, oldValue, newValue) ==
    LET id == FreshId(s.data.light)
    IN  [s EXCEPT !.data.light = id,
                  !.heap = id :> NewHandle(newValue),
                  !.calls = << >>,
                  !.invoked = Append(@, "changeType")]

\* ---------------------------------------------------------------- dispatch
\* A setter without the no-op short-circuit.
StrictEq_Never(name, oldValue, value) == FALSE

\* oldValue === value.
StrictEq(name, oldValue, value) ==
    oldValue = value /\ ~(name \in NumericProps /\ oldValue = NaN)

RECURSIVE set(_, _, _)
RECURSIVE refreshFrom(_, _)

\* A refreshProperties that runs onEnable without looking at the flags.
refreshProperties_Always(s) ==
    LET s1 == refreshFrom([s EXCEPT !.invoked = Append(@, "refreshProperties")], 1)
    IN  IF s1.threw THEN s1 ELSE onEnable(s1)

\* refreshProperties: this[name] = this[name] for every name of _props, then
\* onEnable when the component and its entity are enabled.
refreshProperties(s) ==
    LET s1 == refreshFrom([s EXCEPT !.invoked = Append(@, "refreshProperties")], 1)
    IN  IF s1.threw
        THEN s1
        ELSE IF s1.data.enabled /\ s1.entity THEN onEnable(s1) ELSE s1

\* The setFunc registered for each property, called as setFunc(value, oldValue).
setFunc(s, name, newValue, oldValue) ==
    CASE name = "enabled" -> onSetEnabled(s, Null, oldValue, newValue)
      [] name = "type" ->
            IF oldValue = newValue
            THEN s
            ELSE refreshProperties(changeType(s, oldValue, newValue))
      [] name = "shadowBias" ->
            Call(s, SetterOf(name), name, ShadowBiasArg(newValue))
      [] name = "shadowUpdateMode" -> Assign(s, name, newValue)
      [] name = "affectDynamic" ->
            IF s.data.light = Null
            THEN Throw(s)
            ELSE Call(s, "setMask", "mask",
                      affectDynamicMask(s.heap[s.data.light].mask, newValue))
      [] name = "affectLightmapped" ->
            IF s.data.light = Null
            THEN Throw(s)
            ELSE Call(s, "setMask", "mask",
                      affectLightmappedMask(s.heap[s.data.light].mask, newValue,
                                            s.data.bake))
      [] name = "bake" ->
            IF s.data.light = Null
            THEN Throw(s)
            ELSE Call(s, "setMask", "mask",
                      bakeMask(s.heap[s.data.light].mask, newValue,
                               s.data.affectLightmapped))
      [] OTHER -> Call(s, SetterOf(name), name, newValue)

\* A getter that reads the registered default instead of the store.
get_Default(s, name) == DefaultOf(name)

\* The getter _defineProperty installs.
get(s, name) == s.data[name]

\* The setter _defineProperty installs.
set(s, name, value) ==
    LET oldValue == s.data[name]
    IN  IF StrictEq(name, oldValue, value)
        THEN s
        ELSE LET s1 == [s EXCEPT !.data[name] = value]
             IN  IF HasSetFunc(name)
                 THEN setFunc([s1 EXCEPT !.fired =
                                  Append(@, << name, value, oldValue >>)],
                              name, value, oldValue)
                 ELSE s1

\* The loop of refreshProperties from index i on; a TypeError ends it.
refreshFrom(s, i) ==
    IF i > Len(props) \/ s.threw
    THEN s
    ELSE refreshFrom(set(s, props[i], get(s, props[i])), i + 1)

\* console.warn(...).
Warn(s) == [s EXCEPT !.warns = @ + 1]

\* An alias setter that writes the store behind the setter's back.
enableSet_Direct(s, value) == [Warn(s) EXCEPT !.data.enabled = value]

\* The setter of the deprecated alias `enable`.
enableSet(s, value) == set(Warn(s), "enabled", value)

\* The getter of the deprecated alias `enable`: the context and the value read.
enableGet(s) == << Warn(s), get(s, "enabled") >>

\* ---------------------------------------------------------------- actions
\* A fresh instance on an enabled entity: every property at its default and no
\* handle yet, or that instance once the system has built its handle and
\* assigned it to `light` (the state callers first see the component in).
Init ==
    /\ entity = TRUE
    /\ fired = << >>
    /\ calls = << >>
    /\ warns = 0
    /\ threw = FALSE
    /\ ret = FALSE
    /\ invoked = << >>
    /\ nOps = 0
    /\ \/ /\ data = [ name \in PropNames |-> DefaultOf(name) ]
          /\ heap = << >>
          /\ op = [ kind |-> "new", prop |-> "", val |-> 0 ]
       \/ /\ data = [ name \in PropNames |->
                        IF name = "light" THEN 1 ELSE DefaultOf(name) ]
          /\ heap = 1 :> NewHandle(DefaultOf("type"))
          /\ op = [ kind |-> "set", prop |-> "light", val |-> 1 ]

\* The state an operation leaves, with the record of what it was.
Commit(s, kind, prop, val, r) ==
    /\ data' = s.data
    /\ heap' = s.heap
    /\ entity' = s.entity
    /\ fired' = s.fired
    /\ calls' = s.calls
    /\ warns' = s.warns
    /\ threw' = s.threw
    /\ op' = [ kind |-> kind, prop |-> prop, val |-> val ]
    /\ ret' = r
    /\ invoked' = s.invoked
    /\ nOps' = nOps + 1

\* component[name] = value.
SetProp(name, value) ==
    /\ nOps < MaxOps
    /\ Commit(set(Ctx, name, value), "set", name, value, FALSE)

\* component.light = h: null, the handle the component already has, or a
\* handle the system has just built for the component's type.  A handle that
\* is no longer the component's is released.
SetLight(h) ==
    /\ nOps < MaxOps
    /\ LET hp == IF h = data.light THEN heap
                 ELSE IF h = Null THEN << >>
                 ELSE h :> NewHandle(data.type)
       IN  Commit(set([Ctx EXCEPT !.heap = hp], "light", h),
                  "set", "light", h, FALSE)

\* component.refreshProperties().
RefreshProperties ==
    /\ nOps < MaxOps
    /\ Commit(refreshProperties(Ctx), "refresh", "", 0, FALSE)

\* component.enable = value.
SetEnable(value) ==
    /\ nOps < MaxOps
    /\ Commit(enableSet(Ctx, value), "setEnable", "enable", value, FALSE)

\* component.enable read.
GetEnable ==
    /\ nOps < MaxOps
    /\ Commit(enableGet(Ctx)[1], "getEnable", "enable", 0, enableGet(Ctx)[2])

\* The framework enables or disables the owning entity and runs the hook of
\* its enabled components.
EntitySetEnabled(value) ==
    /\ nOps < MaxOps
    /\ entity # value
    /\ LET s == [Ctx EXCEPT !.entity = value]
       IN  Commit(IF s.data.enabled
                  THEN IF value THEN onEnable(s) ELSE onDisable(s)
                  ELSE s,
                  "entity", "", value, FALSE)

Next ==
    \/ \E name \in PropNames \ { "light" } : \E value \in PropVals(name) :
          SetProp(name, value)
    \/ \E h \in { Null, 1, 2 } : SetLight(h)
    \/ RefreshProperties
    \/ \E value \in BOOLEAN : SetEnable(value)
    \/ GetEnable
    \/ \E value \in BOOLEAN : EntitySetEnabled(value)

Spec == Init /\ [][Next]_vars

\* ---------------------------------------------------------------- observers
\* Whether the component has a rendering handle, and that handle.
HasLight == data.light # Null

Light == heap[data.light]

\* The names of the setFuncs the last operation invoked, in order.
FiredNames == [ i \in 1..Len(fired) |-> fired[i][1] ]

\* The registered properties that have a setFunc, in registration order.
Handlers == SelectSeq(props, HasSetFunc)

\* The last operation was component[name] = ... and it ran name's setFunc first.
Wrote(name) ==
    /\ op.kind = "set"
    /\ op.prop = name
    /\ fired # << >>
    /\ fired[1][1] = name

\* The three flags and the three mask bits they drive.
Flags == << data.affectDynamic, data.affectLightmapped, data.bake >>

MaskBits(m) ==
    << HasBit(m, MASK_DYNAMIC), HasBit(m, MASK_BAKED), HasBit(m, MASK_LIGHTMAP) >>

\* ---------------------------------------------------------------- properties

\* C1: refreshProperties() invokes the setFunc of every registered property
\* that has one, exactly once, in registration order.
C1_RefreshFiresEveryHandler ==
    (op.kind = "refresh" /\ HasLight) => FiredNames = Handlers

\* C2: when a write that changes `type` returns, the newly installed handle
\* has received the stored range through setAttenuationEnd.
C2_TypeChangePushesRange ==
    Wrote("type") =>
        \E i \in 1..Len(calls) :
            calls[i][1] = "setAttenuationEnd" /\ calls[i][2] = data.range

MaskAgrees ==
    /\ HasLight
    /\ HasBit(Light.mask, MASK_DYNAMIC) = data.affectDynamic
    /\ IF data.affectLightmapped /\ data.bake
       THEN HasBit(Light.mask, MASK_BAKED) # HasBit(Light.mask, MASK_LIGHTMAP)
       ELSE /\ HasBit(Light.mask, MASK_BAKED) = data.affectLightmapped
            /\ HasBit(Light.mask, MASK_LIGHTMAP) = data.bake

Untouched ==
    /\ fired' = << >>
    /\ calls' = << >>
    /\ ~threw'
    /\ data' = data
    /\ heap' = heap

\* C4: component[P] = component[P] invokes no setFunc and changes neither the
\* store nor the handle, for every property and every stored value.
C4_SameValueWriteIsNoOp ==
    [][ (op'.kind = "set" /\ op'.val = get(Ctx, op'.prop)) => Untouched ]_vars

\* C4, amended: the same, for every stored value other than NaN.
C4_SameValueWriteIsNoOpUnlessNaN ==
    [][ ( /\ op'.kind = "set"
          /\ op'.val = get(Ctx, op'.prop)
          /\ ~(op'.prop \in NumericProps /\ op'.val = NaN) )
        => Untouched ]_vars

\* C4 witness: a non-default range was written again and nothing fired.
C4_Witness ==
    /\ op.kind = "set" /\ op.prop = "range" /\ op.val = 20
    /\ data.range = 20
    /\ HasLight /\ Light.range = 20
    /\ fired = << >> /\ calls = << >>

\* The write the step performs changes its property: value !== oldValue.
ChangedWrite ==
    /\ op'.kind = "set"
    /\ ~StrictEq(op'.prop, get(Ctx, op'.prop), op'.val)

\* The step ran the written property's setFunc exactly once, with the new and
\* the old value.
FiredOnce ==
    /\ Cardinality({ i \in 1..Len(fired') : fired'[i][1] = op'.prop }) = 1
    /\ \E i \in 1..Len(fired') :
          /\ fired'[i][1] = op'.prop
          /\ fired'[i][2] = op'.val
          /\ fired'[i][3] = get(Ctx, op'.prop)

\* C5: a changed write stores the value, runs the property's setFunc exactly
\* once with old and new value, and the handle of a forwarding property holds
\* the new value.
C5_ChangedWriteDispatches ==
    [][ ChangedWrite =>
          /\ data'[op'.prop] = op'.val
          /\ HasSetFunc(op'.prop) => FiredOnce
          /\ (op'.prop \in Forwarded /\ data'.light # Null) =>
                heap'[data'.light][op'.prop] = op'.val ]_vars

\* C5, amended: the same, the handle holding -0.01 times the new value for
\* shadowBias (the stored 1/100 units become the handle's 1/10000 units).
C5_ChangedWriteDispatchesScaled ==
    [][ ChangedWrite =>
          /\ data'[op'.prop] = op'.val
          /\ HasSetFunc(op'.prop) => FiredOnce
          /\ (op'.prop \in Forwarded /\ data'.light # Null) =>
                heap'[data'.light][op'.prop] =
                    IF op'.prop = "shadowBias" THEN 0 - op'.val ELSE op'.val ]_vars

\* C5 witness: shadowBias went from 0.05 to 0.1 and the handle holds -0.001.
C5_Witness ==
    /\ Wrote("shadowBias")
    /\ fired = << << "shadowBias", 10, 5 >> >>
    /\ data.shadowBias = 10
    /\ HasLight /\ Light.shadowBias = 0 - 10
    /\ calls = << << "setShadowBias", 0 - 10 >> >>

\* C6: with bake and affectLightmapped true, affectLightmapped = false leaves
\* BAKED cleared and LIGHTMAP set.
C6_LightmappedOffUnderBake ==
    [][ ( /\ HasLight /\ data.bake /\ data.affectLightmapped
          /\ op'.kind = "set" /\ op'.prop = "affectLightmapped"
          /\ op'.val = FALSE )
        => /\ data'.light = data.light
           /\ ~HasBit(heap'[data'.light].mask, MASK_BAKED)
           /\ HasBit(heap'[data'.light].mask, MASK_LIGHTMAP) ]_vars

\* C6 witness: affectLightmapped was switched off under bake.
C6_Witness ==
    /\ Wrote("affectLightmapped")
    /\ fired = << << "affectLightmapped", FALSE, TRUE >> >>
    /\ data.bake
    /\ HasLight
    /\ MaskBits(Light.mask) = << TRUE, FALSE, TRUE >>

\* C7: while bake is false a write to affectLightmapped changes no mask bit
\* other than BAKED.
C7_LightmappedTouchesOnlyBaked ==
    [][ ( /\ HasLight /\ ~data.bake
          /\ op'.kind = "set" /\ op'.prop = "affectLightmapped" )
        => /\ data'.light = data.light
           /\ BitAndNot(heap'[data'.light].mask, MASK_BAKED) =
                 BitAndNot(Light.mask, MASK_BAKED) ]_vars

\* C7 witness: affectLightmapped was switched on with bake false on a mask that
\* carries LIGHTMAP and a foreign bit, and both are still there.
C7_Witness ==
    /\ Wrote("affectLightmapped")
    /\ ~data.bake
    /\ HasLight
    /\ HasBit(Light.mask, MASK_BAKED)
    /\ HasBit(Light.mask, MASK_LIGHTMAP)
    /\ HasBit(Light.mask, MASK_OTHER)

\* C8: every write to affectDynamic leaves BAKED and LIGHTMAP as they were and
\* leaves DYNAMIC equal to the written value.
C8_DynamicWriteSetsBit ==
    [][ (HasLight /\ op'.kind = "set" /\ op'.prop = "affectDynamic")
        => /\ data'.light = data.light
           /\ HasBit(heap'[data'.light].mask, MASK_BAKED) =
                 HasBit(Light.mask, MASK_BAKED)
           /\ HasBit(heap'[data'.light].mask, MASK_LIGHTMAP) =
                 HasBit(Light.mask, MASK_LIGHTMAP)
           /\ HasBit(heap'[data'.light].mask, MASK_DYNAMIC) = op'.val ]_vars

\* C8, amended: a write that changes affectDynamic leaves every bit but DYNAMIC
\* as it was and DYNAMIC equal to the written value; a write of the stored
\* value leaves the whole mask as it was.
C8_ChangedDynamicWriteSetsBit ==
    [][ (HasLight /\ op'.kind = "set" /\ op'.prop = "affectDynamic")
        => /\ data'.light = data.light
           /\ BitAndNot(heap'[data'.light].mask, MASK_DYNAMIC) =
                 BitAndNot(Light.mask, MASK_DYNAMIC)
           /\ IF ChangedWrite
              THEN HasBit(heap'[data'.light].mask, MASK_DYNAMIC) = op'.val
              ELSE heap' = heap ]_vars

\* C8 witness: affectDynamic was switched off under bake; LIGHTMAP stayed.
C8_Witness ==
    /\ Wrote("affectDynamic")
    /\ ~data.affectDynamic
    /\ data.bake
    /\ HasLight
    /\ MaskBits(Light.mask) = << FALSE, FALSE, TRUE >>

\* C9: component.enable = v ends in the state component.enabled = v ends in,
\* with one warning more; reading component.enable returns component.enabled,
\* with one warning.
C9_AliasEquivalent ==
    [][ /\ op'.kind = "setEnable" =>
            LET s == set(Ctx, "enabled", op'.val)
            IN  /\ data' = s.data
                /\ heap' = s.heap
                /\ entity' = s.entity
                /\ fired' = s.fired
                /\ calls' = s.calls
                /\ threw' = s.threw
                /\ s.warns = 0
                /\ warns' = 1
        /\ op'.kind = "getEnable" =>
            /\ ret' = get(Ctx, "enabled")
            /\ warns' = 1
            /\ data' = data
            /\ heap' = heap ]_vars

\* C9 witness: the alias switched an enabled component off and the handle
\* was told so.
C9_Witness ==
    /\ op.kind = "setEnable" /\ op.val = FALSE
    /\ ~data.enabled
    /\ HasLight /\ ~Light.enabled
    /\ calls = << << "setEnabled", FALSE >> >>
    /\ warns = 1

\* C10: a property write either stores the value and applies its setFunc, or
\* changes neither the store nor the handle.
C10_WriteAllOrNothing ==
    [][ op'.kind = "set" =>
          \/ data'[op'.prop] = op'.val /\ ~threw'
          \/ data' = data /\ heap' = heap ]_vars

\* C11: refreshProperties() on a component without a handle fails, whatever
\* the enabled flags of the component and its entity are.
C11_RefreshWithoutHandleFails ==
    (op.kind = "refresh" /\ ~HasLight) => threw

\* C12: a write that changes `type` leaves every stored value other than type
\* and light as it was; type holds the written value and light a new handle.
C12_TypeChangeKeepsStore ==
    [][ (ChangedWrite /\ op'.prop = "type")
        => /\ \A name \in PropNames \ { "type", "light" } :
                 data'[name] = data[name]
           /\ data'.type = op'.val
           /\ data'.light # Null /\ data'.light # data.light ]_vars

\* C12 witness: the type was changed on a component whose range and bake had
\* been written before, and both are still stored.
C12_Witness ==
    /\ Wrote("type")
    /\ data.type = "spot"
    /\ data.range = 20
    /\ data.bake
    /\ HasLight /\ Light.type = "spot"

\* C13: a freshly constructed instance returns the registered default for every
\* property (type 'directional', enabled true, range 10, mask 1, affectDynamic
\* true, affectLightmapped false, bake false, light null, ...), no setFunc has
\* run, and the registry's names and defaults are parallel sequences.
C13_FreshInstanceHoldsDefaults ==
    /\ Len(props) = Len(propsDefault)
    /\ Cardinality(PropNames) = Len(props)
    /\ op.kind = "new" =>
          /\ \A i \in 1..Len(props) : get(Ctx, props[i]) = propsDefault[i]
          /\ DOMAIN data = PropNames
          /\ get(Ctx, "type") = "directional"
          /\ get(Ctx, "enabled") = TRUE
          /\ get(Ctx, "light") = Null
          /\ get(Ctx, "range") = 10
          /\ get(Ctx, "mask") = 1
          /\ get(Ctx, "affectDynamic") = TRUE
          /\ get(Ctx, "affectLightmapped") = FALSE
          /\ get(Ctx, "bake") = FALSE
          /\ fired = << >>
          /\ calls = << >>
          /\ ~threw

\* C13 witness: the instance as constructed, before any operation on it.
C13_Witness ==
    /\ op.kind = "new"
    /\ nOps = 0
    /\ ~HasLight
    /\ data.intensity = 1 /\ data.shadowResolution = 1024

\* C14: whenever bake and affectLightmapped are both true, BAKED and LIGHTMAP
\* are not both set in the handle's mask.
C14_BakedLightmapExclusive ==
    (HasLight /\ data.affectLightmapped /\ data.bake) =>
        ~(HasBit(Light.mask, MASK_BAKED) /\ HasBit(Light.mask, MASK_LIGHTMAP))

\* C14, amended: the exclusion holds on a fresh instance and every operation
\* preserves it, except a write to mask made while both flags are true.
C14_ExclusivePreserved ==
    /\ C14_BakedLightmapExclusive
    /\ [][ ( /\ C14_BakedLightmapExclusive
             /\ ~( /\ op'.kind = "set" /\ op'.prop = "mask"
                   /\ data.affectLightmapped /\ data.bake ) )
           => C14_BakedLightmapExclusive' ]_vars

\* C14 witness: bake was switched on over a mask that carried BAKED for
\* affectLightmapped, and BAKED gave way to LIGHTMAP.
C14_Witness ==
    /\ Wrote("bake")
    /\ fired = << << "bake", TRUE, FALSE >> >>
    /\ data.affectLightmapped
    /\ HasLight
    /\ HasBit(Light.mask, MASK_LIGHTMAP)
    /\ ~HasBit(Light.mask, MASK_BAKED)

\* C15: a write that changes bake to v leaves LIGHTMAP equal to v, BAKED equal
\* to NOT v when affectLightmapped is true and as it was otherwise, every other
\* bit as it was, and passes the resulting mask to setMask.
C15_BakeWriteMask ==
    [][ (HasLight /\ ChangedWrite /\ op'.prop = "bake")
        => /\ data'.light = data.light
           /\ HasBit(heap'[data'.light].mask, MASK_LIGHTMAP) = op'.val
           /\ HasBit(heap'[data'.light].mask, MASK_BAKED) =
                 IF data.affectLightmapped
                 THEN ~op'.val
                 ELSE HasBit(Light.mask, MASK_BAKED)
           /\ BitAndNot(BitAndNot(heap'[data'.light].mask, MASK_BAKED),
                        MASK_LIGHTMAP) =
                 BitAndNot(BitAndNot(Light.mask, MASK_BAKED), MASK_LIGHTMAP)
           /\ calls' = << << "setMask", heap'[data'.light].mask >> >> ]_vars

\* C15 witness: bake was switched on under affectLightmapped over a mask with
\* BAKED, LIGHTMAP and a foreign bit; BAKED is gone and the foreign bit is kept.
C15_Witness ==
    /\ Wrote("bake")
    /\ data.bake /\ data.affectLightmapped
    /\ HasLight
    /\ Light.mask = MASK_LIGHTMAP + MASK_OTHER
    /\ calls = << << "setMask", MASK_LIGHTMAP + MASK_OTHER >> >>

\* The setEnabled calls the handle received during the last operation.
SetEnabledCalls == { i \in 1..Len(calls) : calls[i][1] = "setEnabled" }

\* C16: refreshProperties() on a component with a handle ends with onEnable
\* exactly when the component and its entity are both enabled: the handle has
\* then received setEnabled(true) as its last call and is enabled; otherwise
\* the handle received no setEnabled call.
C16_RefreshEnablesIffBothEnabled ==
    (op.kind = "refresh" /\ HasLight) =>
        IF data.enabled /\ entity
        THEN /\ ~threw
             /\ SetEnabledCalls = { Len(calls) }
             /\ calls[Len(calls)][2] = TRUE
             /\ Light.enabled
        ELSE SetEnabledCalls = { }

\* C16 witness: a refresh on an enabled component of an enabled entity told
\* the handle to enable itself.
C16_Witness ==
    /\ op.kind = "refresh"
    /\ HasLight /\ Light.enabled
    /\ data.enabled /\ entity
    /\ calls = << << "setEnabled", TRUE >> >>

\* C16 witness of the other case: a refresh on a disabled component made no
\* call on the handle.
C16_WitnessDisabled ==
    /\ op.kind = "refresh"
    /\ HasLight
    /\ ~data.enabled
    /\ calls = << >>

\* The handle's enabled flag is (component enabled AND entity enabled).
EnabledAgrees == HasLight /\ Light.enabled = (data.enabled /\ entity)

C17_WitnessEntity ==
    /\ op.kind = "entity" /\ op.val = TRUE
    /\ data.enabled /\ entity
    /\ HasLight /\ Light.enabled
    /\ calls = << << "setEnabled", TRUE >> >>

\* C18: a write that changes `type` invokes changeType once and then
\* refreshProperties once, and nothing in that refresh pass invokes either
\* again: the type setFunc runs once and one new handle is installed.
C18_TypeChangeNoReentry ==
    [][ (ChangedWrite /\ op'.prop = "type")
        => /\ invoked' = << "changeType", "refreshProperties" >>
           /\ Cardinality({ i \in 1..Len(fired') : fired'[i][1] = "type" }) = 1
           /\ data'.light = FreshId(data.light)
           /\ heap'[data'.light].type = op'.val ]_vars

\* C18 witness: a type change whose refresh pass re-dispatched a NaN range and
\* still invoked changeType and refreshProperties once each.
C18_Witness ==
    /\ Wrote("type")
    /\ invoked = << "changeType", "refreshProperties" >>
    /\ Len(fired) = 2
    /\ fired[2][1] = "range"
    /\ HasLight

\* C19: a write to affectDynamic, affectLightmapped or bake changes, in the
\* store, its own value only (the stored mask stays) and, on the handle, the
\* mask field only; a write that changes mask leaves exactly the written value
\* in the handle's mask and changes no other stored value.
C19_FlagsAndMaskFrames ==
    [][ /\ ( /\ op'.kind = "set"
             /\ op'.prop \in { "affectDynamic", "affectLightmapped", "bake" } )
           => /\ data' = [data EXCEPT ![op'.prop] = op'.val]
              /\ data'.mask = data.mask
              /\ IF HasLight
                 THEN heap' = [heap EXCEPT ![data.light].mask =
                                                heap'[data.light].mask]
                 ELSE heap' = heap
        /\ (HasLight /\ ChangedWrite /\ op'.prop = "mask")
           => /\ heap' = [heap EXCEPT ![data.light].mask = op'.val]
              /\ data' = [data EXCEPT !.mask = op'.val]
              /\ Flags' = Flags ]_vars

\* C19 witness: bake was switched on; the handle's mask changed and the stored
\* mask did not, so the two differ.
C19_Witness ==
    /\ Wrote("bake")
    /\ HasLight
    /\ data.mask = MASK_DYNAMIC
    /\ Light.mask = MASK_DYNAMIC + MASK_LIGHTMAP

\* C19 witness of the converse: mask was written under bake; the handle holds
\* the written value and bake is still stored.
C19_WitnessMask ==
    /\ Wrote("mask")
    /\ data.bake
    /\ HasLight
    /\ Light.mask = 0
    /\ data.mask = 0

====
